---- MODULE Spec2Model ----
(***************************************************************************)
(* Model of the Nautilus enclave: the init process (src/init/init.rs) that *)
(* boots the enclave and supervises one workload, and the nautilus-server  *)
(* workload (src/nautilus-server/src/{main,common,app}.rs) that holds one  *)
(* ephemeral Ed25519 keypair, answers attestation requests and signs       *)
(* intent messages.                                                        *)
(*                                                                         *)
(* Representation of values                                                *)
(*   u64      a sequence of four 16-bit limbs, least significant first     *)
(*            (value = l[1] + 2^16 l[2] + 2^32 l[3] + 2^48 l[4]); all u64  *)
(*            arithmetic is done on limbs, at the full 64-bit width.       *)
(*   bytes    a sequence of integers 0..255.                               *)
(*   String   the sequence of its UTF-8 bytes.                             *)
(*   hex text a sequence of one-character strings "0".."f".                *)
(***************************************************************************)
EXTENDS Integers, Sequences, FiniteSets, TLC

----------------------------------------------------------------------------
(* u64 arithmetic *)

LimbBase == 65536

U64Zero == <<0, 0, 0, 0>>

\* The u64 whose value is the natural number n (n fits a 32-bit literal).
U64FromNat(n) == <<n % LimbBase, n \div LimbBase, 0, 0>>

\* a * k for a small factor k: the 64-bit wrapped product and whether the
\* exact product needed more than 64 bits.
U64MulSmall(a, k) ==
  LET p1 == a[1] * k
      p2 == a[2] * k + (p1 \div LimbBase)
      p3 == a[3] * k + (p2 \div LimbBase)
      p4 == a[4] * k + (p3 \div LimbBase)
  IN  [val |-> <<p1 % LimbBase, p2 % LimbBase, p3 % LimbBase, p4 % LimbBase>>,
       overflow |-> (p4 \div LimbBase) > 0]

\* a + b: the 64-bit wrapped sum and whether the exact sum needed a 65th bit.
U64Add(a, b) ==
  LET s1 == a[1] + b[1]
      s2 == a[2] + b[2] + (s1 \div LimbBase)
      s3 == a[3] + b[3] + (s2 \div LimbBase)
      s4 == a[4] + b[4] + (s3 \div LimbBase)
  IN  [val |-> <<s1 % LimbBase, s2 % LimbBase, s3 % LimbBase, s4 % LimbBase>>,
       overflow |-> (s4 \div LimbBase) > 0]

\* a < b on u64.
U64Lt(a, b) ==
  \/ a[4] < b[4]
  \/ a[4] = b[4] /\ a[3] < b[3]
  \/ a[4] = b[4] /\ a[3] = b[3] /\ a[2] < b[2]
  \/ a[4] = b[4] /\ a[3] = b[3] /\ a[2] = b[2] /\ a[1] < b[1]

\* u64::to_le_bytes, as bcs writes a u64: 8 bytes, least significant first.
U64ToLeBytes(a) ==
  << a[1] % 256, a[1] \div 256, a[2] % 256, a[2] \div 256,
     a[3] % 256, a[3] \div 256, a[4] % 256, a[4] \div 256 >>

----------------------------------------------------------------------------
(* Hex encoding (fastcrypto::encoding::Hex) *)

HexDigits == <<"0", "1", "2", "3", "4", "5", "6", "7",
               "8", "9", "a", "b", "c", "d", "e", "f">>

\* Hex::encode: two lowercase digits per byte, high nibble first.
HexEncode(bytes) ==
  [i \in 1..(2 * Len(bytes)) |->
     LET b == bytes[(i + 1) \div 2]
     IN  IF i % 2 = 1 THEN HexDigits[(b \div 16) + 1] ELSE HexDigits[(b % 16) + 1]]

HexValue(c) == (CHOOSE k \in 1..16 : HexDigits[k] = c) - 1

\* Hex::decode of well-formed lowercase hex text.
HexDecode(text) ==
  [i \in 1..(Len(text) \div 2) |->
     16 * HexValue(text[2 * i - 1]) + HexValue(text[2 * i])]

----------------------------------------------------------------------------
(* BCS canonical encoding of IntentMessage<WeatherResponse> *)

\* ULEB128 of a length, as bcs writes sequence and string lengths.
RECURSIVE Uleb128(_)
Uleb128(n) ==
  IF n < 128 THEN <<n>> ELSE <<128 + (n % 128)>> \o Uleb128(n \div 128)

\* A String: ULEB128 byte length, then the UTF-8 bytes.
BcsString(s) == Uleb128(Len(s)) \o s

\* Mutant: the fields written in the other order.
BcsWeatherResponse_Swapped(w) ==
  U64ToLeBytes(w.temperature) \o BcsString(w.location)

\* WeatherResponse {location: String, temperature: u64}: fields in
\* declaration order.
BcsWeatherResponse(w) == BcsString(w.location) \o U64ToLeBytes(w.temperature)

\* IntentMessage {intent, timestamp_ms, data}: IntentScope is repr(u8) and
\* serialized through serde_repr as that one byte.
BcsIntentMessage(m) ==
  <<m.intent>> \o U64ToLeBytes(m.timestamp_ms) \o BcsWeatherResponse(m.data)

----------------------------------------------------------------------------
(* Ed25519 keypairs and signatures (fastcrypto), idealised: a keypair is   *)
(* its seed; its public key is a byte string that determines the seed; a   *)
(* signature is a byte string that determines the signing key and the      *)
(* signed bytes, and verifies only under that key and for those bytes.     *)

NumKeys == 2

KeyPairs == 1..NumKeys

\* kp.public().as_bytes()
PublicKeyBytes(kp) == <<kp, 255 - kp>>

\* kp.sign(msg), as signature bytes.
Sign(kp, msg) == <<kp>> \o msg

\* Ed25519 verification of sig over msg under public key bytes pk.
Verify(pk, msg, sig) ==
  \E kp \in KeyPairs : PublicKeyBytes(kp) = pk /\ sig = Sign(kp, msg)

----------------------------------------------------------------------------
(* to_signed_response *)

\* IntentScope: a repr(u8) enum with the one variant Weather = 0.
Weather == 0

IntentTags == {Weather}

\* Result values.
Err(msg) == [tag |-> "err", msg |-> msg]

Ok(body) == [tag |-> "ok", body |-> body]

\* The caller unwinds: the call does not return, the task ends without a
\* reply.
Panicked == [tag |-> "panic"]

\* Whether bcs can serialize a payload of this shape. WeatherResponse
\* (String, u64) it can; bcs has no encoding for floating point numbers, and
\* its serialize_f64 returns Error::NotSupported.
BcsSupported(data) == DOMAIN data = {"location", "temperature"}

\* bcs::to_bytes(&intent_msg): the canonical bytes, or the serializer's
\* error.
bcs_to_bytes(m) ==
  IF BcsSupported(m.data) THEN Ok(BcsIntentMessage(m))
  ELSE Err("NotSupported")

\* Mutant: the signature made over the payload alone.
to_signed_response_DataOnly(kp, payload, timestamp_ms, intent) ==
  LET intent_msg == [intent |-> intent, timestamp_ms |-> timestamp_ms,
                     data |-> payload]
      sig == Sign(kp, BcsWeatherResponse(payload))
  IN  [response |-> intent_msg, signature |-> HexEncode(sig)]

\* Line 79: expect("should not fail") panics on the serializer's error.
to_signed_response(kp, payload, timestamp_ms, intent) ==
  LET intent_msg == [intent |-> intent, timestamp_ms |-> timestamp_ms,
                     data |-> payload]
      bytes == bcs_to_bytes(intent_msg)
      signing_payload == bytes.body
      sig == Sign(kp, signing_payload)
  IN  IF bytes.tag = "err" THEN Panicked
      ELSE [response |-> intent_msg, signature |-> HexEncode(sig)]

----------------------------------------------------------------------------
(* Inputs *)

SanFrancisco == <<83, 97, 110, 32, 70, 114, 97, 110, 99, 105, 115, 99, 111>>

Unknown == <<85, 110, 107, 110, 111, 119, 110>>

\* A location whose length needs a two-byte ULEB128 prefix.
LongLocationLen == 128

LongLocation == [i \in 1..LongLocationLen |-> 97]

Locations == {SanFrancisco, Unknown, <<>>, LongLocation}

\* 1744038900 s, the epoch second of the golden vector of test_serde.
GoldenEpoch == 1744038900

GoldenTimestampMs == U64MulSmall(U64FromNat(GoldenEpoch), 1000).val

U64Max == <<65535, 65535, 65535, 65535>>

GoldenHex ==
  <<"0", "0", "2", "0", "b", "1", "d", "1", "1", "0", "9", "6", "0",
    "1", "0", "0", "0", "0", "0", "d", "5", "3", "6", "1", "6", "e",
    "2", "0", "4", "6", "7", "2", "6", "1", "6", "e", "6", "3", "6",
    "9", "7", "3", "6", "3", "6", "f", "0", "d", "0", "0", "0", "0",
    "0", "0", "0", "0", "0", "0", "0", "0", "0", "0">>

Temperatures == {U64Zero, U64FromNat(13), U64Max}

Timestamps == {U64Zero, GoldenTimestampMs, U64Max}

WeatherResponses == [location : Locations, temperature : Temperatures]

\* Payloads of a type with an f64 field (the value held in tenths), which
\* the bound T: Serialize + Clone admits.
FloatReadings == [temp_c : {-25, 135}]

\* The absent value of a record-valued variable.
None == [none |-> TRUE]


----------------------------------------------------------------------------
(* Option values *)

Some(v) == [some |-> TRUE, v |-> v]

Absent == [some |-> FALSE]

----------------------------------------------------------------------------
(* process_data: from the parsed upstream JSON to the reply *)

\* The staleness window of process_data: 3_600_000 ms.
StaleWindowMs == 3600000

\* json[..].as_str().unwrap_or("Unknown")
JsonLocation(json) == IF json.name.some THEN json.name.v ELSE Unknown

\* json[..].as_f64().unwrap_or(0.0) as u64. A float is held as a whole
\* number of tenths; the cast truncates toward zero and saturates below 0.
JsonTemperature(json) ==
  LET tenths == IF json.temp_c.some THEN json.temp_c.v ELSE 0
  IN  IF tenths < 0 THEN U64Zero ELSE U64FromNat(tenths \div 10)

\* json[..].as_u64().unwrap_or(0)
JsonLastUpdatedEpoch(json) ==
  IF json.last_updated_epoch.some THEN json.last_updated_epoch.v ELSE U64Zero

\* Mutant: data exactly one window old is rejected too.
process_data_reply_Le(kp, json, clock, overflow_checks) ==
  LET product == U64MulSmall(JsonLastUpdatedEpoch(json), 1000)
      deadline == U64Add(product.val, U64FromNat(StaleWindowMs))
  IN  IF overflow_checks /\ product.overflow THEN Panicked
      ELSE IF ~clock.some THEN Err("Failed to get current timestamp")
      ELSE IF overflow_checks /\ deadline.overflow THEN Panicked
      ELSE IF ~U64Lt(clock.v, deadline.val)
           THEN Err("Weather API timestamp is too old")
      ELSE Ok(to_signed_response(
                kp,
                [location |-> JsonLocation(json),
                 temperature |-> JsonTemperature(json)],
                product.val,
                Weather))

\* Mutant: a failed clock read defaults to 0, as the missing JSON fields
\* default.
process_data_reply_ClockDefault(kp, json, clock, overflow_checks) ==
  LET product == U64MulSmall(JsonLastUpdatedEpoch(json), 1000)
      deadline == U64Add(product.val, U64FromNat(StaleWindowMs))
      now == IF clock.some THEN clock.v ELSE U64Zero
  IN  IF overflow_checks /\ product.overflow THEN Panicked
      ELSE IF overflow_checks /\ deadline.overflow THEN Panicked
      ELSE IF U64Lt(deadline.val, now)
           THEN Err("Weather API timestamp is too old")
      ELSE Ok(to_signed_response(
                kp,
                [location |-> JsonLocation(json),
                 temperature |-> JsonTemperature(json)],
                product.val,
                Weather))

\* process_data from line 45 on: kp is state.eph_kp, json the parsed body,
\* clock the result of SystemTime::now().duration_since(UNIX_EPOCH) in ms,
\* overflow_checks whether the build traps on integer overflow (debug
\* profile) or wraps (release profile).
process_data_reply(kp, json, clock, overflow_checks) ==
  LET location == JsonLocation(json)
      temperature == JsonTemperature(json)
      last_updated_epoch == JsonLastUpdatedEpoch(json)
      product == U64MulSmall(last_updated_epoch, 1000)
      last_updated_timestamp_ms == product.val
      deadline == U64Add(last_updated_timestamp_ms, U64FromNat(StaleWindowMs))
  IN  IF overflow_checks /\ product.overflow THEN Panicked
      ELSE IF ~clock.some THEN Err("Failed to get current timestamp")
      ELSE IF overflow_checks /\ deadline.overflow THEN Panicked
      ELSE IF U64Lt(deadline.val, clock.v)
           THEN Err("Weather API timestamp is too old")
      ELSE LET signed == to_signed_response(
                           kp,
                           [location |-> location, temperature |-> temperature],
                           last_updated_timestamp_ms,
                           Weather)
           IN  IF signed = Panicked THEN Panicked ELSE Ok(signed)

\* Lines 48-52: what the call has read from the clock when it ends. The
\* multiplication of line 48 comes first: when it panics the clock is not
\* read (None); otherwise the read gives clock, a time or its failure.
process_data_now(json, clock, overflow_checks) ==
  IF overflow_checks /\ U64MulSmall(JsonLastUpdatedEpoch(json), 1000).overflow
  THEN None
  ELSE clock

\* The upstream bodies: the golden one, an empty object, one whose
\* last_updated_epoch times 1000 is the largest multiple of 1000 in u64,
\* one whose last_updated_epoch times 1000 is 2^64 + 1744038900384, and
\* one with nothing but a last_updated_epoch of 2^61, which times 1000 is
\* 125 * 2^64.
EpochTop == <<42991, 19398, 35127, 65>>

EpochWrap == <<37860, 46010, 35127, 65>>

EpochWrapZero == <<0, 0, 0, 8192>>

Jsons ==
  { [name |-> Some(SanFrancisco), temp_c |-> Some(135),
     last_updated_epoch |-> Some(U64FromNat(GoldenEpoch))],
    [name |-> Absent, temp_c |-> Absent, last_updated_epoch |-> Absent],
    [name |-> Some(SanFrancisco), temp_c |-> Some(-25),
     last_updated_epoch |-> Some(EpochTop)],
    [name |-> Some(<<>>), temp_c |-> Some(9),
     last_updated_epoch |-> Some(EpochWrap)],
    [name |-> Absent, temp_c |-> Absent,
     last_updated_epoch |-> Some(EpochWrapZero)] }

\* Clock readings, in ms: a failed reading, and the staleness window on and
\* one past the epoch and on and one past the golden timestamp.
Clocks ==
  { Absent,
    Some(U64FromNat(StaleWindowMs)),
    Some(U64FromNat(StaleWindowMs + 1)),
    Some(U64Add(GoldenTimestampMs, U64FromNat(StaleWindowMs)).val),
    Some(U64Add(GoldenTimestampMs, U64FromNat(StaleWindowMs + 1)).val) }

\* What the upstream request may give: no reply, a reply that is not JSON,
\* or a JSON body.
Upstreams ==
  { [fetched |-> FALSE], [fetched |-> TRUE, parsed |-> FALSE] }
  \cup { [fetched |-> TRUE, parsed |-> TRUE, json |-> j] : j \in Jsons }

----------------------------------------------------------------------------
(* get_attestation: the NSM driver and the match on its response *)

\* The request get_attestation builds: only the public key is set.
AttestationRequest(pk) ==
  [user_data |-> Absent, nonce |-> Absent, public_key |-> Some(pk)]

\* The documents the hardware may sign for a request: opaque bytes that
\* embed the request's public key.
AttestationDocuments(request) ==
  { <<132, m>> \o request.public_key.v : m \in {0, 200} }

\* What nsm_process_request may answer on handle fd: the attestation, an
\* error, or another variant; on the invalid handle -1 only an error.
NsmResponses(fd, request) ==
  IF fd = -1 THEN { [variant |-> "Error"] }
  ELSE { [variant |-> "Attestation", document |-> d] :
           d \in AttestationDocuments(request) }
       \cup { [variant |-> "Error"], [variant |-> "GetRandom"] }

\* Mutant: the handle is not released when the response is unexpected.
get_attestation_match_Leak(fd, response) ==
  IF response.variant = "Attestation"
  THEN [exit |-> <<fd>>,
        result |-> Ok([attestation |-> HexEncode(response.document)])]
  ELSE [exit |-> <<>>, result |-> Err("unexpected response")]

\* Mutant: an unexpected response is answered as a success without a
\* document.
get_attestation_match_Silent(fd, response) ==
  IF response.variant = "Attestation"
  THEN [exit |-> <<fd>>,
        result |-> Ok([attestation |-> HexEncode(response.document)])]
  ELSE [exit |-> <<fd>>, result |-> Ok([attestation |-> HexEncode(<<>>)])]

\* The match of get_attestation on the response: which handles it passes
\* to nsm_exit, and what it returns.
get_attestation_match(fd, response) ==
  IF response.variant = "Attestation"
  THEN [exit |-> <<fd>>,
        result |-> Ok([attestation |-> HexEncode(response.document)])]
  ELSE [exit |-> <<fd>>, result |-> Err("unexpected response")]

----------------------------------------------------------------------------
(* health_check: endpoint strings and the connectivity verdict *)

\* str::contains on UTF-8 bytes.
Contains(s, sub) ==
  \E i \in 1..(Len(s) - Len(sub) + 1) : SubSeq(s, i, i + Len(sub) - 1) = sub

\* ".amazonaws.com"
AmazonawsSuffix == <<46, 97, 109, 97, 122, 111, 110, 97, 119, 115, 46, 99,
      111, 109>>

\* "healthy"
HealthyWord == <<104, 101, 97, 108, 116, 104, 121>>

\* Line 176, body.to_lowercase().contains("healthy"), body being the UTF-8
\* bytes of the text. str::to_lowercase lowers the text character by
\* character and drops none. A lower case holds a letter of "healthy"
\* only when the character is that letter or its ASCII capital: the only
\* other characters with an ASCII character in their lower case are U+212A
\* (k) and U+0130 (i, U+0307); the one step that looks at the neighbours,
\* the choice between the two lower cases of a capital sigma, is between
\* two characters outside ASCII. In UTF-8 the bytes below 128 are the
\* ASCII characters and every other character is made of bytes from 128
\* up. So the lowered text holds "healthy" exactly where seven bytes of
\* body in a row are its letters, each in either case, whatever the
\* version of the Unicode tables the build carries.
LowercaseContainsHealthy(body) ==
  LET lowered == [i \in 1..Len(body) |->
                    IF body[i] \in 65..90 THEN body[i] + 32 ELSE body[i]]
  IN  Contains(lowered, HealthyWord)

\* "kms.us-east-1.amazonaws.com" and "api.weatherapi.com"
KmsEndpoint == <<107, 109, 115, 46, 117, 115, 45, 101, 97, 115, 116, 45,
      49, 46, 97, 109, 97, 122, 111, 110, 97, 119, 115, 46, 99, 111, 109>>

WeatherEndpoint == <<97, 112, 105, 46, 119, 101, 97, 116, 104, 101, 114,
      97, 112, 105, 46, 99, 111, 109>>

\* "Healthy" and "down"
BodyHealthy == <<72, 101, 97, 108, 116, 104, 121>>

BodyDown == <<100, 111, 119, 110>>

\* "ETE HEALTHY IK SOS" with E-acute (U+00C9) for each E of the first word,
\* the dotted capital I (U+0130), the KELVIN SIGN (U+212A) and, for SOS,
\* the Greek capitals sigma, omicron, sigma.
BodyAccented == <<195, 137, 84, 195, 137, 32, 72, 69, 65, 76, 84, 72, 89, 32,
      196, 176, 226, 132, 170, 32, 206, 163, 206, 159, 206, 163>>

\* What client.get(url).send() and the reading of the reply may give.
SendOutcomes ==
  { [sent |-> FALSE],
    [sent |-> TRUE, success |-> TRUE, body |-> Some(BodyHealthy)],
    [sent |-> TRUE, success |-> FALSE, body |-> Some(BodyDown)],
    [sent |-> TRUE, success |-> FALSE, body |-> Some(BodyAccented)],
    [sent |-> TRUE, success |-> TRUE, body |-> Absent] }

\* Lines 171-194: is_reachable for one endpoint string.
is_reachable(endpoint_str, outcome) ==
  IF outcome.sent
  THEN IF Contains(endpoint_str, AmazonawsSuffix)
       THEN IF outcome.body.some
            THEN LowercaseContainsHealthy(outcome.body.v)
            ELSE FALSE
       ELSE outcome.success
  ELSE FALSE

\* Mutant: the status kept as a list of entries, a checked endpoint always
\* adding one.
MapInsert_Push(map, k, v) == map \cup {<<k, v>>}

\* HashMap::insert on a map held as a set of <<key, value>> pairs.
MapInsert(map, k, v) == {e \in map : e[1] # k} \cup {<<k, v>>}

\* What allowed_endpoints.yaml may hold: nothing readable, no YAML, YAML
\* without an endpoints sequence, or a sequence of entries, each a string
\* or something else.
EndpointFiles ==
  { [read |-> FALSE],
    [read |-> TRUE, yaml |-> FALSE],
    [read |-> TRUE, yaml |-> TRUE, endpoints |-> Absent],
    [read |-> TRUE, yaml |-> TRUE,
     endpoints |-> Some(<<Some(KmsEndpoint), Some(KmsEndpoint), Absent,
                          Some(WeatherEndpoint)>>)] }

\* Lines 153-161: the entries health_check will walk through.
EndpointEntries(file) ==
  IF file.read /\ file.yaml /\ file.endpoints.some THEN file.endpoints.v
  ELSE <<>>

\* Lines 219-222: the reply.
health_check_reply(kp, status) ==
  Ok([pk |-> HexEncode(PublicKeyBytes(kp)), endpoints_status |-> status])

\* Lines 162-163: the loop passes over the entries that are not strings;
\* what is left of the list from its first string entry on.
RECURSIVE NextEndpoint(_)
NextEndpoint(todo) ==
  IF todo = <<>> \/ Head(todo).some THEN todo
  ELSE NextEndpoint(Tail(todo))

----------------------------------------------------------------------------
(* init: the mount table and the file system calls *)

Range(f) == {f[x] : x \in DOMAIN f}

\* Paths are sequences of components.
Dev == <<"dev">>

DevPts == <<"dev", "pts">>

DevShm == <<"dev", "shm">>

Proc == <<"proc">>

Run == <<"run">>

Tmp == <<"tmp">>

Sys == <<"sys">>

SysFsCgroup == <<"sys", "fs", "cgroup">>

no_dse == {"MS_NODEV", "MS_NOSUID", "MS_NOEXEC"}

no_se == {"MS_NOSUID", "MS_NOEXEC"}

\* Mutant: the cgroup root entry comes before the sysfs entry.
MountTable_CgroupFirst ==
  << [src |-> "devtmpfs", target |-> Dev, fstype |-> "devtmpfs",
      flags |-> no_se, data |-> "mode=0755"],
     [src |-> "devpts", target |-> DevPts, fstype |-> "devpts",
      flags |-> no_se, data |-> ""],
     [src |-> "shm", target |-> DevShm, fstype |-> "tmpfs",
      flags |-> no_dse, data |-> "mode=0755"],
     [src |-> "proc", target |-> Proc, fstype |-> "proc",
      flags |-> no_dse, data |-> "hidepid=2"],
     [src |-> "tmpfs", target |-> Run, fstype |-> "tmpfs",
      flags |-> no_dse, data |-> "mode=0755"],
     [src |-> "tmpfs", target |-> Tmp, fstype |-> "tmpfs",
      flags |-> no_dse, data |-> ""],
     [src |-> "cgroup_root", target |-> SysFsCgroup, fstype |-> "tmpfs",
      flags |-> no_dse, data |-> "mode=0755"],
     [src |-> "sysfs", target |-> Sys, fstype |-> "sysfs",
      flags |-> no_dse, data |-> ""] >>

\* args of init_rootfs, in order.
MountTable ==
  << [src |-> "devtmpfs", target |-> Dev, fstype |-> "devtmpfs",
      flags |-> no_se, data |-> "mode=0755"],
     [src |-> "devpts", target |-> DevPts, fstype |-> "devpts",
      flags |-> no_se, data |-> ""],
     [src |-> "shm", target |-> DevShm, fstype |-> "tmpfs",
      flags |-> no_dse, data |-> "mode=0755"],
     [src |-> "proc", target |-> Proc, fstype |-> "proc",
      flags |-> no_dse, data |-> "hidepid=2"],
     [src |-> "tmpfs", target |-> Run, fstype |-> "tmpfs",
      flags |-> no_dse, data |-> "mode=0755"],
     [src |-> "tmpfs", target |-> Tmp, fstype |-> "tmpfs",
      flags |-> no_dse, data |-> ""],
     [src |-> "sysfs", target |-> Sys, fstype |-> "sysfs",
      flags |-> no_dse, data |-> ""],
     [src |-> "cgroup_root", target |-> SysFsCgroup, fstype |-> "tmpfs",
      flags |-> no_dse, data |-> "mode=0755"] >>

Targets == {MountTable[i].target : i \in 1..Len(MountTable)}

\* p lies under q.
IsUnder(p, q) == Len(q) < Len(p) /\ SubSeq(p, 1, Len(q)) = q

\* What a mount target can be: missing, a directory, or a file that is not a
\* directory.
PathKinds == {"absent", "file", "dir"}

\* A root file system as init may find it: nothing exists under a path
\* that is not a directory. A plain file in the place of a mount point is
\* considered for the targets that have no other target above or beneath
\* them.
RootFileSystems ==
  { f \in [Targets -> PathKinds] :
      /\ \A p \in {DevPts, DevShm, SysFsCgroup} :
           \A q \in {Dev, Sys} :
             (IsUnder(p, q) /\ f[q] # "dir") => f[p] = "absent"
      /\ \A p \in Targets :
           f[p] = "file" =>
             \A q \in Targets : ~IsUnder(p, q) /\ ~IsUnder(q, p) }

\* Line 32: the condition under which init_rootfs calls create_dir_all,
\* exists being std::fs::exists(target).unwrap_or(false).
NeedsCreate(exists) == exists

\* std::fs::exists(target).unwrap_or(false) for a path of this kind. The
\* query itself does not fail for init, which runs as root on its own root
\* file system.
PathExists(kind) == kind # "absent"

\* std::fs::create_dir_all on a path of this kind: the kinds it may leave.
\* A directory stays and the call succeeds; a missing path is created unless
\* the call fails; on a file the call fails.
CreateDirAll(kind) == IF kind = "absent" THEN {"dir", "absent"} ELSE {kind}

\* The file systems mount may leave when it succeeds on target: what lies
\* under target is now what the mounted file system holds there.
AfterMount(f, target) ==
  LET under == {p \in Targets : IsUnder(p, target)}
  IN  { [p \in Targets |->
           IF p \in under THEN (IF p \in dirs THEN "dir" ELSE "absent")
           ELSE f[p]] : dirs \in SUBSET under }

\* Line 38: whether mount succeeds on a target of this kind. It can succeed
\* only on a directory, and can fail on anything.
MountResults(kind) == IF kind = "dir" THEN {TRUE, FALSE} ELSE {FALSE}

\* args of init_console, in order.
ConsoleTable ==
  << [filename |-> "/dev/console", mode |-> "r", file |-> 0],
     [filename |-> "/dev/console", mode |-> "w", file |-> 1],
     [filename |-> "/dev/console", mode |-> "w", file |-> 2] >>

\* Mutant: boot redirects the console before it mounts the file systems.
BootSteps_ConsoleFirst ==
  <<"init_console", "init_rootfs", "init_platform", "seed_entropy">>

\* Mutant: boot without the entropy step.
BootSteps_NoSeed == <<"init_rootfs", "init_console", "init_platform">>

\* boot: its steps, in order.
BootSteps == <<"init_rootfs", "init_console", "init_platform", "seed_entropy">>

\* Where init is after the boot step at pc: the next step, or back in main.
AfterBootStep(pc) ==
  LET i == CHOOSE k \in 1..Len(BootSteps) : BootSteps[k] = pc
  IN  IF i < Len(BootSteps) THEN BootSteps[i + 1] ELSE "booted"

\* Lines 38-42: where init is after the mount of entry idx: both arms of the
\* match print and fall through to the next entry; after the last entry
\* init_rootfs returns.
AfterMountResult(idx, ok) ==
  IF idx = Len(MountTable) THEN AfterBootStep("init_rootfs")
  ELSE "init_rootfs"

\* Lines 79-90: where main is after spawn: in the Ok arm it waits for the
\* child; the Err arm prints and falls through to reboot.
AfterSpawn(ok) == IF ok THEN "wait" ELSE "reboot"

\* Mutant: wait gives up on a child that still runs.
WaitReturns_Early(child_state) == child_state \in {"running", "exited"}

\* Line 83: child.wait() blocks until the child has exited; waitpid fails
\* only for a child that is already gone.
WaitReturns(child_state) == child_state = "exited"

\* eprintln! and println!: what the write to the stream may give. The Err
\* arms print to stderr, so a step that failed has a message to write and
\* the write may fail; a step that succeeded writes nothing to stderr.
PrintResults(failed) == IF failed THEN BOOLEAN ELSE {TRUE}

\* Where main is after a print: eprintln! and println! panic when the write
\* fails, and the panic ends main (exit status 101).
AfterPrint(written, next) == IF written THEN next ELSE "panicked"

\* The line main panicked at, after a print at `line`.
PanicAfterPrint(written, line, before) == IF written THEN before ELSE line

----------------------------------------------------------------------------
VARIABLES
  hcArgs,         \* what the environment gives the health_check call under study
  hcRet,          \* what the call returned, None before it returns
  hcRun,          \* where that call is: its position, the entry its loop is
                  \* at and its status_map, None when no call is under study
  pdArgs,         \* what the environment gives the process_data call under study
  pdRet,          \* what the call returned, None before it returns
  pdRun,          \* where that call is: its position, the parsed body,
                  \* and at its end what it read from the clock,
                  \* None when no call is under study
  sgArgs,         \* the arguments of the to_signed_response call under study
  sgRet,          \* what the call returned, None before it returns
  srvPc,          \* where main of nautilus-server is
  mainKp,         \* main's local eph_kp, 0 before it is generated
  keygens,        \* how many times Ed25519KeyPair::generate has run
  appState,       \* the shared Arc<AppState>, None before it is built
  overflowChecks, \* whether the build traps on integer overflow
  calls,          \* the request handlers in flight, by task
  nsmOwner,       \* open NSM handles: handle -> the task that opened it, 0 if closed
  initPc,         \* where init is
  bootCalls,      \* how many times boot has been entered
  fs,             \* the kind of each mount target path
  mountIdx,       \* the entry of the mount table init_rootfs is at
  ensured,        \* whether the entry's create-if step has run
  mountTry,       \* the entry at hand: whether its target existed, whether
                  \* create_dir_all was called, whether mount has been
                  \* attempted and whether the target was then a directory
  mountAttempts,  \* the targets mount was attempted on, in order
  mountFailures,  \* how many mounts have failed
  createFailures, \* how many create_dir_all calls have failed
  consoleAttempts,\* the streams freopen was attempted on, in order
  consoleFailures,\* how many of them have failed
  platformInits,  \* how many times init_platform has run
  entropy,        \* "unseeded", "seeded", or "failed"
  seedAttempts,   \* how many times seed_entropy has run
  child,          \* the workload: "none", "running", "exited", "reaped"
  childKey,       \* whether the workload has generated its keypair
  spawns,         \* how many times spawn has run
  reboots,        \* how many times reboot has run
  panicLine       \* the line of init.rs at which main panicked, 0 if none

signVars == <<sgArgs, sgRet, pdArgs, pdRet, pdRun, hcArgs, hcRet, hcRun>>

serverVars == <<srvPc, mainKp, keygens, appState, overflowChecks, calls, nsmOwner>>

initVars ==
  <<initPc, bootCalls, fs, mountIdx, ensured, mountTry, mountAttempts,
    mountFailures, createFailures, consoleAttempts, consoleFailures, platformInits, entropy, seedAttempts, child, childKey,
    spawns, reboots, panicLine>>

vars == <<signVars, serverVars, initVars>>

InitIdle ==
  /\ initPc = "off" /\ bootCalls = 0
  /\ fs = [t \in Targets |-> "absent"]
  /\ mountIdx = 0 /\ ensured = FALSE /\ mountTry = None
  /\ mountAttempts = <<>> /\ mountFailures = 0 /\ createFailures = 0
  /\ consoleAttempts = <<>> /\ consoleFailures = 0
  /\ platformInits = 0 /\ entropy = "unseeded" /\ seedAttempts = 0
  /\ child = "none" /\ childKey = FALSE /\ spawns = 0 /\ reboots = 0
  /\ panicLine = 0

SignIdle ==
  /\ sgArgs = None /\ sgRet = None /\ pdArgs = None /\ pdRet = None
  /\ pdRun = None
  /\ hcArgs = None /\ hcRet = None /\ hcRun = None
----------------------------------------------------------------------------
(* The server: main, and the handlers as concurrent tasks *)

MaxCalls == 2

\* The tasks of the runtime that can each run one handler at a time.
CallIds == 1..MaxCalls

\* NSM handle numbers; nsm_init returns the lowest one not open.
Fds == 1..MaxCalls

ApiKeys == {"key"}

IdleCall ==
  [kind |-> "idle", pc |-> "idle", pk |-> <<>>, fd |-> 0,
   inits |-> 0, reqs |-> 0, exits |-> 0,
   request |-> None, response |-> None, json |-> None, result |-> None]

ServerIdle ==
  /\ srvPc = "off" /\ mainKp = 0 /\ keygens = 0 /\ appState = None
  /\ overflowChecks = FALSE
  /\ calls = [c \in CallIds |-> IdleCall]
  /\ nsmOwner = [f \in Fds |-> 0]

ServerInit ==
  /\ srvPc = "start" /\ mainKp = 0 /\ keygens = 0 /\ appState = None
  /\ overflowChecks \in BOOLEAN
  /\ calls = [c \in CallIds |-> IdleCall]
  /\ nsmOwner = [f \in Fds |-> 0]
  /\ SignIdle
  /\ InitIdle

\* Mutant: a handler works with a keypair of its own.
StateKeyPair_Fresh(state) == (state.eph_kp % NumKeys) + 1

\* state.eph_kp, as a handler reads it.
StateKeyPair(state) == state.eph_kp

\* main line 16: Ed25519KeyPair::generate.
MainGenerate ==
  /\ srvPc = "start"
  /\ \E kp \in KeyPairs : mainKp' = kp
  /\ keygens' = keygens + 1
  /\ srvPc' = "api_key"
  /\ UNCHANGED <<appState, overflowChecks, calls, nsmOwner, signVars, initVars>>

\* main lines 21-24: API_KEY is read (its absence panics) and the shared
\* state is built from the keypair and the key.
MainState ==
  /\ srvPc = "api_key"
  /\ \/ \E k \in ApiKeys :
          /\ appState' = [eph_kp |-> mainKp, api_key |-> k]
          /\ srvPc' = "bind"
     \/ /\ srvPc' = "aborted"
        /\ UNCHANGED appState
  /\ UNCHANGED <<mainKp, keygens, overflowChecks, calls, nsmOwner, signVars, initVars>>

\* main lines 29-39: the router is built, the listener is bound (a failure
\* ends main) and the server starts to accept requests.
MainServe ==
  /\ srvPc = "bind"
  /\ srvPc' \in {"serving", "exited"}
  /\ UNCHANGED <<mainKp, keygens, appState, overflowChecks, calls, nsmOwner,
                 signVars, initVars>>

Serving == srvPc = "serving"

LowestFreeFd == CHOOSE f \in Fds : nsmOwner[f] = 0 /\ \A g \in Fds : g < f => nsmOwner[g] # 0

(* get_attestation *)

\* Lines 98-103: the handler is entered and reads the public key.
AttestBegin(c) ==
  /\ Serving /\ calls[c].kind = "idle"
  /\ calls' = [calls EXCEPT ![c] =
       [IdleCall EXCEPT !.kind = "get_attestation", !.pc = "nsm_init",
                        !.pk = PublicKeyBytes(StateKeyPair(appState))]]
  /\ UNCHANGED <<srvPc, mainKp, keygens, appState, overflowChecks, nsmOwner,
                 signVars, initVars>>

\* Lines 104-111: nsm_init opens the device (-1 when the open fails) and
\* the request is built.
AttestInit(c) ==
  /\ calls[c].kind = "get_attestation" /\ calls[c].pc = "nsm_init"
  /\ \/ /\ \E f \in Fds : nsmOwner[f] = 0
        /\ nsmOwner' = [nsmOwner EXCEPT ![LowestFreeFd] = c]
        /\ calls' = [calls EXCEPT ![c].fd = LowestFreeFd,
                                  ![c].inits = @ + 1,
                                  ![c].request = AttestationRequest(calls[c].pk),
                                  ![c].pc = "nsm_process_request"]
     \/ /\ UNCHANGED nsmOwner
        /\ calls' = [calls EXCEPT ![c].fd = -1,
                                  ![c].inits = @ + 1,
                                  ![c].request = AttestationRequest(calls[c].pk),
                                  ![c].pc = "nsm_process_request"]
  /\ UNCHANGED <<srvPc, mainKp, keygens, appState, overflowChecks, signVars, initVars>>

\* Line 113: the one request on the handle.
AttestRequest(c) ==
  /\ calls[c].kind = "get_attestation" /\ calls[c].pc = "nsm_process_request"
  /\ \E r \in NsmResponses(calls[c].fd, calls[c].request) :
       calls' = [calls EXCEPT ![c].response = r, ![c].reqs = @ + 1,
                              ![c].pc = "match"]
  /\ UNCHANGED <<srvPc, mainKp, keygens, appState, overflowChecks, nsmOwner,
                 signVars, initVars>>

\* nsm_exit(fd): closes the handle; closing -1 or a closed handle fails
\* inside the driver and changes nothing.
NsmExit(owner, fd) ==
  IF fd \in Fds THEN [owner EXCEPT ![fd] = 0] ELSE owner

RECURSIVE NsmExitAll(_, _)
NsmExitAll(owner, fds) ==
  IF fds = <<>> THEN owner ELSE NsmExitAll(NsmExit(owner, Head(fds)), Tail(fds))

\* Lines 114-127: the match; the handle is released and the reply built.
AttestMatch(c) ==
  /\ calls[c].kind = "get_attestation" /\ calls[c].pc = "match"
  /\ LET m == get_attestation_match(calls[c].fd, calls[c].response)
     IN  /\ nsmOwner' = NsmExitAll(nsmOwner, m.exit)
         /\ calls' = [calls EXCEPT ![c].exits = @ + Len(m.exit),
                                   ![c].result = m.result,
                                   ![c].pc = "done"]
  /\ UNCHANGED <<srvPc, mainKp, keygens, appState, overflowChecks, signVars, initVars>>

(* process_data *)

\* Lines 31-38: the handler is entered and builds the URL.
ProcessBegin(c) ==
  /\ Serving /\ calls[c].kind = "idle"
  /\ calls' = [calls EXCEPT ![c] =
       [IdleCall EXCEPT !.kind = "process_data", !.pc = "fetch"]]
  /\ UNCHANGED <<srvPc, mainKp, keygens, appState, overflowChecks, nsmOwner,
                 signVars, initVars>>

\* Lines 39-41: the upstream request, which may fail.
ProcessFetch(c) ==
  /\ calls[c].kind = "process_data" /\ calls[c].pc = "fetch"
  /\ \/ calls' = [calls EXCEPT ![c].pc = "json"]
     \/ calls' = [calls EXCEPT ![c].pc = "done",
                    ![c].result = Err("Failed to get weather response")]
  /\ UNCHANGED <<srvPc, mainKp, keygens, appState, overflowChecks, nsmOwner,
                 signVars, initVars>>

\* Lines 42-44: the body is parsed as JSON, which may fail.
ProcessJson(c) ==
  /\ calls[c].kind = "process_data" /\ calls[c].pc = "json"
  /\ \/ \E j \in Jsons :
          calls' = [calls EXCEPT ![c].pc = "sign", ![c].json = j]
     \/ calls' = [calls EXCEPT ![c].pc = "done",
                    ![c].result = Err("Failed to parse weather response")]
  /\ UNCHANGED <<srvPc, mainKp, keygens, appState, overflowChecks, nsmOwner,
                 signVars, initVars>>

\* Lines 45-69: the fields are read, the clock is read, the freshness is
\* checked and the response is signed.
ProcessSign(c) ==
  /\ calls[c].kind = "process_data" /\ calls[c].pc = "sign"
  /\ \E clock \in Clocks :
       calls' = [calls EXCEPT
         ![c].pc = "done",
         ![c].json = None,
         ![c].result = process_data_reply(StateKeyPair(appState), calls[c].json,
                                          clock, overflowChecks)]
  /\ UNCHANGED <<srvPc, mainKp, keygens, appState, overflowChecks, nsmOwner,
                 signVars, initVars>>

(* health_check *)

\* Lines 162-171 and 205-222: the loop goes on with the entries `todo`: it
\* runs to the request to the next string entry, which it awaits, or, with
\* no string entry left, to the reply.
HealthLoop(k, kp, todo, status_map) ==
  LET rest == NextEndpoint(todo)
  IN  IF rest = <<>>
      THEN [k EXCEPT !.pc = "done", !.request = [todo |-> rest],
                     !.response = status_map,
                     !.result = health_check_reply(kp, status_map)]
      ELSE [k EXCEPT !.pc = "send", !.request = [todo |-> rest],
                     !.response = status_map]

\* Lines 141-171: the handler is entered, reads the public key and builds
\* the HTTP client, which may fail; allowed_endpoints.yaml is read and
\* parsed and the loop entered with an empty status_map.
HealthBegin(c) ==
  /\ Serving /\ calls[c].kind = "idle"
  /\ LET k == [IdleCall EXCEPT !.kind = "health_check",
                               !.pk = PublicKeyBytes(StateKeyPair(appState))]
     IN  \/ \E file \in EndpointFiles :
              calls' = [calls EXCEPT ![c] =
                HealthLoop(k, StateKeyPair(appState), EndpointEntries(file), {})]
         \/ calls' = [calls EXCEPT ![c] =
              [k EXCEPT !.pc = "done",
                        !.result = Err("Failed to create HTTP client")]]
  /\ UNCHANGED <<srvPc, mainKp, keygens, appState, overflowChecks, nsmOwner,
                 signVars, initVars>>

\* Lines 171-173 and 185-196: the awaited request to the entry at hand is
\* over. A reply from an amazonaws endpoint has its body read next, which
\* is awaited; any other outcome is entered in the map and the loop goes on.
HealthCheckEndpoint(c) ==
  /\ calls[c].kind = "health_check" /\ calls[c].pc = "send"
  /\ LET endpoint == Head(calls[c].request.todo)
     IN  \E outcome \in SendOutcomes :
           IF outcome.sent /\ Contains(endpoint.v, AmazonawsSuffix)
           THEN calls' = [calls EXCEPT ![c].pc = "text"]
           ELSE calls' = [calls EXCEPT ![c] =
                  HealthLoop(@, StateKeyPair(appState),
                             Tail(calls[c].request.todo),
                             MapInsert(calls[c].response, endpoint.v,
                                       is_reachable(endpoint.v, outcome)))]
  /\ UNCHANGED <<srvPc, mainKp, keygens, appState, overflowChecks, nsmOwner,
                 signVars, initVars>>

\* Lines 175-184 and 196: the awaited response.text is over; the endpoint
\* is entered in the map by what the body holds and the loop goes on.
HealthReadBody(c) ==
  /\ calls[c].kind = "health_check" /\ calls[c].pc = "text"
  /\ LET endpoint == Head(calls[c].request.todo)
     IN  \E outcome \in {o \in SendOutcomes : o.sent} :
           calls' = [calls EXCEPT ![c] =
             HealthLoop(@, StateKeyPair(appState),
                        Tail(calls[c].request.todo),
                        MapInsert(calls[c].response, endpoint.v,
                                  is_reachable(endpoint.v, outcome)))]
  /\ UNCHANGED <<srvPc, mainKp, keygens, appState, overflowChecks, nsmOwner,
                 signVars, initVars>>

\* The reply leaves the handler (or the panicked task ends) and the task
\* is free for the next request.
Reply(c) ==
  /\ calls[c].pc = "done"
  /\ calls' = [calls EXCEPT ![c] = IdleCall]
  /\ UNCHANGED <<srvPc, mainKp, keygens, appState, overflowChecks, nsmOwner,
                 signVars, initVars>>

ServerNext ==
  \/ MainGenerate
  \/ MainState
  \/ MainServe
  \/ \E c \in CallIds : AttestBegin(c)
  \/ \E c \in CallIds : AttestInit(c)
  \/ \E c \in CallIds : AttestRequest(c)
  \/ \E c \in CallIds : AttestMatch(c)
  \/ \E c \in CallIds : ProcessBegin(c)
  \/ \E c \in CallIds : ProcessFetch(c)
  \/ \E c \in CallIds : ProcessJson(c)
  \/ \E c \in CallIds : ProcessSign(c)
  \/ \E c \in CallIds : HealthBegin(c)
  \/ \E c \in CallIds : HealthCheckEndpoint(c)
  \/ \E c \in CallIds : HealthReadBody(c)
  \/ \E c \in CallIds : Reply(c)

Spec == ServerInit /\ [][ServerNext]_vars

----------------------------------------------------------------------------
(* SpecSign: to_signed_response applied to every input of the bounded sets *)

SignArgs ==
  [kp : KeyPairs, payload : WeatherResponses, timestamp_ms : Timestamps,
   intent : IntentTags]

SignInit ==
  /\ sgArgs \in SignArgs /\ sgRet = None
  /\ pdArgs = None /\ pdRet = None /\ pdRun = None
  /\ hcArgs = None /\ hcRet = None /\ hcRun = None
  /\ ServerIdle
  /\ InitIdle

\* The call runs to its return.
SignCall ==
  /\ sgRet = None
  /\ sgRet' = to_signed_response(sgArgs.kp, sgArgs.payload,
                                 sgArgs.timestamp_ms, sgArgs.intent)
  /\ UNCHANGED <<sgArgs, pdArgs, pdRet, pdRun, hcArgs, hcRet, hcRun, serverVars,
                 initVars>>

\* The caller takes the response and calls again with other arguments.
SignAgain ==
  /\ sgRet # None
  /\ sgArgs' \in SignArgs
  /\ sgRet' = None
  /\ UNCHANGED <<pdArgs, pdRet, pdRun, hcArgs, hcRet, hcRun, serverVars, initVars>>

SignNext == SignCall \/ SignAgain

SpecSign == SignInit /\ [][SignNext]_vars

----------------------------------------------------------------------------
(* SpecSignAny: to_signed_response applied to payloads of any serializable *)
(* type, those bcs cannot encode included                                  *)

SignAnyArgs ==
  [kp : KeyPairs, payload : WeatherResponses \cup FloatReadings,
   timestamp_ms : Timestamps, intent : IntentTags]

SignAnyInit ==
  /\ sgArgs \in SignAnyArgs /\ sgRet = None
  /\ pdArgs = None /\ pdRet = None /\ pdRun = None
  /\ hcArgs = None /\ hcRet = None /\ hcRun = None
  /\ ServerIdle
  /\ InitIdle

\* After a return or a panic, another call with other arguments.
SignAnyAgain ==
  /\ sgRet # None
  /\ sgArgs' \in SignAnyArgs
  /\ sgRet' = None
  /\ UNCHANGED <<pdArgs, pdRet, pdRun, hcArgs, hcRet, hcRun, serverVars, initVars>>

SignAnyNext == SignCall \/ SignAnyAgain

SpecSignAny == SignAnyInit /\ [][SignAnyNext]_vars

----------------------------------------------------------------------------
(* SpecProcess: one process_data call at a time, followed from await to *)
(* await, in every environment of the bounded sets                       *)

ProcessArgs ==
  [kp : KeyPairs, upstream : Upstreams, clock : Clocks,
   overflow_checks : BOOLEAN]

ProcessInit ==
  /\ pdArgs \in ProcessArgs /\ pdRet = None /\ pdRun = [pc |-> "fetch"]
  /\ sgArgs = None /\ sgRet = None
  /\ hcArgs = None /\ hcRet = None /\ hcRun = None
  /\ ServerIdle
  /\ InitIdle

\* Lines 35-41: the URL is built and reqwest::get awaited; a failed request
\* returns the error.
ProcessCallFetch ==
  /\ pdRun # None /\ pdRun.pc = "fetch"
  /\ IF pdArgs.upstream.fetched
     THEN pdRun' = [pc |-> "json"] /\ UNCHANGED pdRet
     ELSE /\ pdRet' = Err("Failed to get weather response")
          /\ pdRun' = [pc |-> "done", now |-> None]
  /\ UNCHANGED <<pdArgs, sgArgs, sgRet, hcArgs, hcRet, hcRun, serverVars, initVars>>

\* Lines 42-44: response.json awaited; a body that is not JSON returns the
\* error.
ProcessCallJson ==
  /\ pdRun # None /\ pdRun.pc = "json"
  /\ IF pdArgs.upstream.parsed
     THEN pdRun' = [pc |-> "sign", json |-> pdArgs.upstream.json]
          /\ UNCHANGED pdRet
     ELSE /\ pdRet' = Err("Failed to parse weather response")
          /\ pdRun' = [pc |-> "done", now |-> None]
  /\ UNCHANGED <<pdArgs, sgArgs, sgRet, hcArgs, hcRet, hcRun, serverVars, initVars>>

\* Lines 45-69: the fields are read, then the clock; the freshness is
\* checked and the response signed and returned.
ProcessCallSign ==
  /\ pdRun # None /\ pdRun.pc = "sign"
  /\ pdRet' = process_data_reply(pdArgs.kp, pdRun.json, pdArgs.clock,
                                 pdArgs.overflow_checks)
  /\ pdRun' = [pc |-> "done",
               now |-> process_data_now(pdRun.json, pdArgs.clock,
                                        pdArgs.overflow_checks)]
  /\ UNCHANGED <<pdArgs, sgArgs, sgRet, hcArgs, hcRet, hcRun, serverVars, initVars>>

\* The next call, in any environment.
ProcessAgain ==
  /\ pdRet # None
  /\ pdArgs' \in ProcessArgs
  /\ pdRet' = None
  /\ pdRun' = [pc |-> "fetch"]
  /\ UNCHANGED <<sgArgs, sgRet, hcArgs, hcRet, hcRun, serverVars, initVars>>

ProcessNext ==
  \/ ProcessCallFetch
  \/ ProcessCallJson
  \/ ProcessCallSign
  \/ ProcessAgain

SpecProcess == ProcessInit /\ [][ProcessNext]_vars

----------------------------------------------------------------------------
(* SpecHealth: one health_check call, followed from await to await, in   *)
(* every environment of the bounded sets                                 *)

HealthArgs ==
  { [kp |-> kp, client_ok |-> ok, file |-> file, outcomes |-> outcomes] :
      kp \in KeyPairs, ok \in BOOLEAN,
      <<file, outcomes>> \in
        UNION { { <<f, o>> : o \in [1..Len(EndpointEntries(f)) -> SendOutcomes] } :
                f \in EndpointFiles } }

HealthInit ==
  /\ hcArgs \in HealthArgs /\ hcRet = None /\ hcRun = [pc |-> "begin"]
  /\ sgArgs = None /\ sgRet = None /\ pdArgs = None /\ pdRet = None
  /\ pdRun = None
  /\ ServerIdle
  /\ InitIdle

\* The outcome of the request to the entry the loop is at.
HealthCallOutcome ==
  hcArgs.outcomes[Len(EndpointEntries(hcArgs.file)) - Len(hcRun.todo) + 1]

\* Lines 162-171 and 205-222: the loop goes on with the entries `todo`: it
\* runs to the request to the next string entry, which it awaits, or, with
\* no string entry left, to the reply, which is returned.
HealthCallLoop(todo, status_map) ==
  LET rest == NextEndpoint(todo)
  IN  IF rest = <<>>
      THEN /\ hcRet' = health_check_reply(hcArgs.kp, status_map)
           /\ hcRun' = [pc |-> "done"]
      ELSE /\ hcRun' = [pc |-> "send", todo |-> rest,
                        status_map |-> status_map]
           /\ UNCHANGED hcRet

\* Lines 141-171: the public key is read and the HTTP client built, a
\* failure of which returns the error; the endpoints file is loaded and the
\* loop entered with an empty status_map.
HealthCallBegin ==
  /\ hcRun # None /\ hcRun.pc = "begin"
  /\ IF hcArgs.client_ok
     THEN HealthCallLoop(EndpointEntries(hcArgs.file), {})
     ELSE /\ hcRet' = Err("Failed to create HTTP client")
          /\ hcRun' = [pc |-> "done"]
  /\ UNCHANGED <<hcArgs, sgArgs, sgRet, pdArgs, pdRet, pdRun, serverVars, initVars>>

\* Lines 171-173 and 185-196: the awaited request to the entry at hand is
\* over. A reply from an amazonaws endpoint has its body read next, which
\* is awaited; any other outcome is entered in the map and the loop goes on.
HealthCallSend ==
  /\ hcRun # None /\ hcRun.pc = "send"
  /\ LET endpoint == Head(hcRun.todo)
         outcome == HealthCallOutcome
     IN  IF outcome.sent /\ Contains(endpoint.v, AmazonawsSuffix)
         THEN hcRun' = [hcRun EXCEPT !.pc = "text"] /\ UNCHANGED hcRet
         ELSE HealthCallLoop(
                Tail(hcRun.todo),
                MapInsert(hcRun.status_map, endpoint.v,
                          is_reachable(endpoint.v, outcome)))
  /\ UNCHANGED <<hcArgs, sgArgs, sgRet, pdArgs, pdRet, pdRun, serverVars, initVars>>

\* Lines 175-184 and 196: the awaited response.text is over; the endpoint
\* is entered in the map by what the body holds and the loop goes on.
HealthCallText ==
  /\ hcRun # None /\ hcRun.pc = "text"
  /\ LET endpoint == Head(hcRun.todo)
     IN  HealthCallLoop(
           Tail(hcRun.todo),
           MapInsert(hcRun.status_map, endpoint.v,
                     is_reachable(endpoint.v, HealthCallOutcome)))
  /\ UNCHANGED <<hcArgs, sgArgs, sgRet, pdArgs, pdRet, pdRun, serverVars, initVars>>

HealthNext ==
  \/ HealthCallBegin
  \/ HealthCallSend
  \/ HealthCallText

SpecHealth == HealthInit /\ [][HealthNext]_vars

----------------------------------------------------------------------------
(* SpecBoot: init, from the start of main to the platform restart, and the *)
(* workload it supervises                                                  *)

BootInit ==
  /\ initPc = "main" /\ bootCalls = 0
  /\ fs \in RootFileSystems
  /\ mountIdx = 0 /\ ensured = FALSE /\ mountTry = None
  /\ mountAttempts = <<>> /\ mountFailures = 0 /\ createFailures = 0
  /\ consoleAttempts = <<>> /\ consoleFailures = 0
  /\ platformInits = 0 /\ entropy = "unseeded" /\ seedAttempts = 0
  /\ child = "none" /\ childKey = FALSE /\ spawns = 0 /\ reboots = 0
  /\ panicLine = 0
  /\ SignIdle /\ ServerIdle

\* Line 71: main calls boot, which enters init_rootfs.
MainBoot ==
  /\ initPc = "main"
  /\ bootCalls' = bootCalls + 1
  /\ initPc' = BootSteps[1]
  /\ mountIdx' = 1
  /\ UNCHANGED <<fs, ensured, mountTry, mountAttempts, mountFailures, createFailures,
                 consoleAttempts, consoleFailures, platformInits, entropy,
                 seedAttempts, child, childKey, spawns, reboots, panicLine,
                 signVars, serverVars>>

\* Lines 32-37: for the entry at hand, the existence test and, under the
\* condition of line 32, create_dir_all, whose failure is printed.
RootfsEnsure ==
  /\ initPc = "init_rootfs" /\ mountIdx <= Len(MountTable) /\ ~ensured
  /\ LET target == MountTable[mountIdx].target
         exists == PathExists(fs[target])
     IN    /\ mountTry' = [target |-> target, existed |-> fs[target] # "absent",
                           created |-> NeedsCreate(exists), attempted |-> FALSE,
                           dir |-> FALSE]
           /\ IF NeedsCreate(exists)
              THEN \E kind \in CreateDirAll(fs[target]) :
                     /\ fs' = [fs EXCEPT ![target] = kind]
                     /\ createFailures' =
                          IF kind = "dir" THEN createFailures
                          ELSE createFailures + 1
                     /\ \E written \in PrintResults(kind # "dir") :
                          /\ initPc' = AfterPrint(written, initPc)
                          /\ panicLine' = PanicAfterPrint(written, 35, panicLine)
              ELSE UNCHANGED <<fs, createFailures, initPc, panicLine>>
  /\ ensured' = TRUE
  /\ UNCHANGED <<bootCalls, mountIdx, mountAttempts, mountFailures,
                 consoleAttempts, consoleFailures, platformInits, entropy,
                 seedAttempts, child, childKey, spawns, reboots, signVars,
                 serverVars>>

\* Lines 38-41: mount on the entry's target, which can succeed only on a
\* directory; a failure is printed; after the last entry init_rootfs
\* returns.
RootfsMount ==
  /\ initPc = "init_rootfs" /\ mountIdx <= Len(MountTable) /\ ensured
  /\ LET target == MountTable[mountIdx].target
     IN  /\ mountTry' = [mountTry EXCEPT !.attempted = TRUE,
                                         !.dir = fs[target] = "dir"]
         /\ mountAttempts' = Append(mountAttempts, target)
         /\ \E ok \in MountResults(fs[target]) :
              /\ IF ok
                 THEN fs' \in AfterMount(fs, target) /\ UNCHANGED mountFailures
                 ELSE mountFailures' = mountFailures + 1 /\ UNCHANGED fs
              /\ \E written \in PrintResults(~ok) :
                   /\ initPc' = AfterPrint(written, AfterMountResult(mountIdx, ok))
                   /\ panicLine' = PanicAfterPrint(written, 40, panicLine)
  /\ ensured' = FALSE
  /\ mountIdx' = mountIdx + 1
  /\ UNCHANGED <<bootCalls, createFailures, consoleAttempts, consoleFailures,
                 platformInits, entropy, seedAttempts, child, childKey, spawns,
                 reboots, signVars, serverVars>>

\* Lines 52-57: freopen of the next stream on the console; a failure is
\* printed; after the last stream init_console returns.
ConsoleReopen ==
  /\ initPc = "init_console"
  /\ LET i == Len(consoleAttempts) + 1
     IN  /\ consoleAttempts' = Append(consoleAttempts, ConsoleTable[i].file)
         /\ \E ok \in BOOLEAN :
              /\ consoleFailures' =
                   IF ok THEN consoleFailures ELSE consoleFailures + 1
              /\ \E written \in PrintResults(~ok) :
                   /\ initPc' = AfterPrint(
                                  written,
                                  IF i = Len(ConsoleTable)
                                  THEN AfterBootStep("init_console")
                                  ELSE initPc)
                   /\ panicLine' = PanicAfterPrint(written, 55, panicLine)
  /\ UNCHANGED <<bootCalls, fs, mountIdx, ensured, mountTry, mountAttempts,
                 mountFailures, createFailures, platformInits, entropy, seedAttempts, child,
                 childKey, spawns, reboots, signVars, serverVars>>

\* Line 63: init_platform.
PlatformInit ==
  /\ initPc = "init_platform"
  /\ platformInits' = platformInits + 1
  /\ initPc' = AfterBootStep("init_platform")
  /\ UNCHANGED <<bootCalls, fs, mountIdx, ensured, mountTry, mountAttempts,
                 mountFailures, createFailures, consoleAttempts, consoleFailures, entropy,
                 seedAttempts, child, childKey, spawns, reboots, panicLine,
                 signVars, serverVars>>

\* Lines 64-67: seed_entropy(4096, get_entropy); a failure is printed and
\* boot returns.
SeedEntropy ==
  /\ initPc = "seed_entropy"
  /\ seedAttempts' = seedAttempts + 1
  /\ \E ok \in BOOLEAN :
       /\ entropy' = IF ok THEN "seeded" ELSE "failed"
       /\ \E written \in PrintResults(~ok) :
            /\ initPc' = AfterPrint(written, AfterBootStep("seed_entropy"))
            /\ panicLine' = PanicAfterPrint(written, 66, panicLine)
  /\ UNCHANGED <<bootCalls, fs, mountIdx, ensured, mountTry, mountAttempts,
                 mountFailures, createFailures, consoleAttempts, consoleFailures,
                 platformInits, child, childKey, spawns, reboots, signVars,
                 serverVars>>

\* Lines 72-77: back in main: the boot message, the environment, and the
\* println! of line 77 to stdout.
MainEnv ==
  /\ initPc = "booted"
  /\ \E written \in BOOLEAN :
       /\ initPc' = AfterPrint(written, "spawn")
       /\ panicLine' = PanicAfterPrint(written, 77, panicLine)
  /\ UNCHANGED <<bootCalls, fs, mountIdx, ensured, mountTry, mountAttempts,
                 mountFailures, createFailures, consoleAttempts, consoleFailures,
                 platformInits, entropy, seedAttempts, child, childKey,
                 spawns, reboots, signVars, serverVars>>

\* Lines 79-81, 88: the workload is spawned; if that fails the failure is
\* printed and main goes on to reboot.
MainSpawn ==
  /\ initPc = "spawn"
  /\ spawns' = spawns + 1
  /\ \E ok \in BOOLEAN :
       /\ child' = IF ok THEN "running" ELSE child
       /\ \E written \in PrintResults(~ok) :
            /\ initPc' = AfterPrint(written, AfterSpawn(ok))
            /\ panicLine' = PanicAfterPrint(written, 88, panicLine)
  /\ UNCHANGED <<bootCalls, fs, mountIdx, ensured, mountTry, mountAttempts,
                 mountFailures, createFailures, consoleAttempts, consoleFailures,
                 platformInits, entropy, seedAttempts, childKey, reboots,
                 signVars, serverVars>>

\* The workload starts nautilus-server, whose main generates the keypair
\* (main.rs line 16).
ChildKeygen ==
  /\ child = "running" /\ ~childKey
  /\ childKey' = TRUE
  /\ UNCHANGED <<initPc, bootCalls, fs, mountIdx, ensured, mountTry,
                 mountAttempts, mountFailures, createFailures, consoleAttempts,
                 consoleFailures, platformInits, entropy, seedAttempts, child,
                 spawns, reboots, panicLine, signVars, serverVars>>

\* The workload exits.
ChildExit ==
  /\ child = "running"
  /\ child' = "exited"
  /\ UNCHANGED <<initPc, bootCalls, fs, mountIdx, ensured, mountTry,
                 mountAttempts, mountFailures, createFailures, consoleAttempts,
                 consoleFailures, platformInits, entropy, seedAttempts,
                 childKey, spawns, reboots, panicLine, signVars, serverVars>>

\* Lines 83-86: child.wait() returns, with the exit status (the child is
\* reaped) or with an error, which is printed.
MainWait ==
  /\ initPc = "wait"
  /\ WaitReturns(child)
  /\ \E ok \in BOOLEAN :
       /\ child' = IF ok THEN "reaped" ELSE child
       /\ \E written \in PrintResults(~ok) :
            /\ initPc' = AfterPrint(written, "reboot")
            /\ panicLine' = PanicAfterPrint(written, 85, panicLine)
  /\ UNCHANGED <<bootCalls, fs, mountIdx, ensured, mountTry, mountAttempts,
                 mountFailures, createFailures, consoleAttempts, consoleFailures,
                 platformInits, entropy, seedAttempts, childKey, spawns,
                 reboots, signVars, serverVars>>

\* Line 90: reboot.
MainReboot ==
  /\ initPc = "reboot"
  /\ reboots' = reboots + 1
  /\ initPc' = "halted"
  /\ UNCHANGED <<bootCalls, fs, mountIdx, ensured, mountTry, mountAttempts,
                 mountFailures, createFailures, consoleAttempts, consoleFailures,
                 platformInits, entropy, seedAttempts, child, childKey,
                 spawns, panicLine, signVars, serverVars>>

BootNext ==
  \/ MainBoot
  \/ RootfsEnsure
  \/ RootfsMount
  \/ ConsoleReopen
  \/ PlatformInit
  \/ SeedEntropy
  \/ MainEnv
  \/ MainSpawn
  \/ ChildKeygen
  \/ ChildExit
  \/ MainWait
  \/ MainReboot

SpecBoot == BootInit /\ [][BootNext]_vars

\* The steps of init itself.
InitStep ==
  \/ MainBoot
  \/ RootfsEnsure
  \/ RootfsMount
  \/ ConsoleReopen
  \/ PlatformInit
  \/ SeedEntropy
  \/ MainEnv
  \/ MainSpawn
  \/ MainWait
  \/ MainReboot

\* init is the only process until it spawns the workload and each of its
\* calls returns, so it always takes its next step; the workload, once
\* spawned, eventually exits.
SpecBootFair == SpecBoot /\ WF_vars(InitStep) /\ WF_vars(ChildExit)

----------------------------------------------------------------------------
(* Claims about to_signed_response and the canonical encoding (SpecSign)   *)

SignReturned == sgArgs # None /\ sgRet # None

\* C7: the response returned by to_signed_response carries exactly the
\* intent, timestamp_ms and data given, and the returned signature, hex
\* decoded, is the keypair's signature over the canonical bytes of the
\* returned response: it verifies under the keypair's public key.
C7_RoundTripVerifies ==
  SignReturned =>
    LET bytes == BcsIntentMessage(sgRet.response)
        sig == HexDecode(sgRet.signature)
    IN  /\ sgRet.response = [intent |-> sgArgs.intent,
                             timestamp_ms |-> sgArgs.timestamp_ms,
                             data |-> sgArgs.payload]
        /\ sig = Sign(sgArgs.kp, bytes)
        /\ Verify(PublicKeyBytes(sgArgs.kp), bytes, sig)

C7_Witness ==
  /\ SignReturned
  /\ sgArgs.kp = NumKeys
  /\ sgArgs.payload.location = LongLocation
  /\ sgArgs.timestamp_ms = U64Max
  /\ sgArgs.intent = Weather

\* The 16-bit limb that two consecutive little-endian bytes spell.
LimbAt(b, i) == b[i] + 256 * b[i + 1]

\* C8: the canonical bytes are the intent tag (1 byte), timestamp_ms (8
\* bytes, little-endian), the ULEB128 length of location, the bytes of
\* location, and temperature (8 bytes, little-endian), in this order; for
\* Weather, 1744038900000, "San Francisco", 13 they are the golden vector.
C8_CanonicalLayout ==
  SignReturned =>
    LET m == sgRet.response
        b == BcsIntentMessage(m)
        n == Len(m.data.location)
        k == IF n < 128 THEN 1 ELSE 2
        t == 9 + k + n
    IN  /\ Len(b) = 1 + 8 + k + n + 8
        /\ b[1] = m.intent
        /\ \A i \in 1..4 : LimbAt(b, 2 * i) = m.timestamp_ms[i]
        /\ IF n < 128 THEN b[10] = n
           ELSE b[10] = 128 + (n % 128) /\ b[11] = n \div 128 /\ b[11] < 128
        /\ SubSeq(b, 10 + k, t) = m.data.location
        /\ \A i \in 1..4 : LimbAt(b, t + 2 * i - 1) = m.data.temperature[i]
        /\ ( /\ m.intent = Weather
             /\ m.timestamp_ms = GoldenTimestampMs
             /\ m.data = [location |-> SanFrancisco,
                          temperature |-> U64FromNat(13)] )
           => HexEncode(b) = GoldenHex

C8_Witness ==
  /\ SignReturned
  /\ sgRet.response.intent = Weather
  /\ sgRet.response.timestamp_ms = GoldenTimestampMs
  /\ sgRet.response.data = [location |-> SanFrancisco,
                            temperature |-> U64FromNat(13)]
  /\ HexEncode(BcsIntentMessage(sgRet.response)) = GoldenHex

\* C14: when canonicalization of the intent message fails, the call returns
\* an error value to its caller: it does not panic, and it returns no
\* signature.
C14_EncodingFailureReturned ==
  (SignReturned /\ bcs_to_bytes([intent |-> sgArgs.intent,
                                  timestamp_ms |-> sgArgs.timestamp_ms,
                                  data |-> sgArgs.payload]).tag = "err") =>
    /\ sgRet # Panicked
    /\ "signature" \notin DOMAIN sgRet
    /\ sgRet.tag = "err"

----------------------------------------------------------------------------
(* Claims about the server (Spec) *)

InFlight(c) == calls[c].kind # "idle"

IsAttest(c) == calls[c].kind = "get_attestation"

HoldsHandle(c) ==
  IsAttest(c) /\ calls[c].pc \in {"nsm_process_request", "match"}

\* C3: every get_attestation call calls nsm_init once, sends one request,
\* with only the public key set, on the handle nsm_init gave it, and calls
\* nsm_exit once on that handle whatever the response; while it uses the
\* handle the handle is open and its own; an open handle always belongs to
\* a call that has not yet released it, so none is open when no call is in
\* flight.
C3_HandleScoped ==
  /\ \A c \in CallIds :
       IsAttest(c) =>
         LET k == calls[c] IN
         /\ k.pc = "nsm_init" => k.inits = 0 /\ k.reqs = 0 /\ k.exits = 0
         /\ k.pc = "nsm_process_request" =>
              k.inits = 1 /\ k.reqs = 0 /\ k.exits = 0
         /\ k.pc = "match" => k.inits = 1 /\ k.reqs = 1 /\ k.exits = 0
         /\ k.pc = "done" => k.inits = 1 /\ k.reqs = 1 /\ k.exits = 1
         /\ HoldsHandle(c) =>
              /\ k.fd = -1 \/ (k.fd \in Fds /\ nsmOwner[k.fd] = c)
              /\ k.request.user_data = Absent
              /\ k.request.nonce = Absent
              /\ k.request.public_key = Some(k.pk)
         /\ k.pc = "done" => \A f \in Fds : nsmOwner[f] # c
  /\ \A f \in Fds :
       nsmOwner[f] # 0 =>
         HoldsHandle(nsmOwner[f]) /\ calls[nsmOwner[f]].fd = f
  /\ (\A c \in CallIds : ~InFlight(c)) => \A f \in Fds : nsmOwner[f] = 0

\* A call took the error path and released its handle, and the other call
\* now holds the handle of that number.
C3_Witness ==
  /\ IsAttest(1) /\ calls[1].pc = "done" /\ calls[1].fd = 1
  /\ calls[1].response.variant = "Error" /\ calls[1].exits = 1
  /\ HoldsHandle(2) /\ calls[2].fd = 1 /\ nsmOwner[1] = 2

\* C4: get_attestation returns success exactly when the response is the
\* Attestation variant, and then the reply is the hex text of the response's
\* document; for any other variant it returns the error and no document.
C4_AttestationIffVariant ==
  \A c \in CallIds :
    (IsAttest(c) /\ calls[c].pc = "done") =>
      LET k == calls[c] IN
      IF k.response.variant = "Attestation"
      THEN /\ k.result.tag = "ok"
           /\ Len(k.result.body.attestation) = 2 * Len(k.response.document)
           /\ HexDecode(k.result.body.attestation) = k.response.document
      ELSE k.result = Err("unexpected response")

C4_Witness ==
  /\ IsAttest(1) /\ calls[1].pc = "done" /\ calls[1].result.tag = "ok"
  /\ IsAttest(2) /\ calls[2].pc = "done" /\ calls[2].result.tag = "err"
  /\ calls[2].response.variant = "GetRandom"

\* What C5 says of a state: the keypair has been generated at most once,
\* the shared state holds the generated keypair, handlers run only once the
\* server serves, and every public key and signature a handler holds is of
\* the generated keypair.
C5_OneKeypair ==
  /\ keygens <= 1
  /\ appState # None => keygens = 1 /\ appState.eph_kp = mainKp
  /\ \A c \in CallIds :
       InFlight(c) =>
         LET k == calls[c]
             pk == PublicKeyBytes(mainKp)
         IN  /\ Serving /\ appState # None
             /\ k.kind \in {"get_attestation", "health_check"} => k.pk = pk
             /\ (IsAttest(c) /\ k.request # None) =>
                  k.request.public_key = Some(pk)
             /\ (k.kind = "health_check" /\ k.pc = "done" /\ k.result.tag = "ok")
                  => HexDecode(k.result.body.pk) = pk
             /\ (k.kind = "process_data" /\ k.pc = "done" /\ k.result.tag = "ok")
                  => Verify(pk, BcsIntentMessage(k.result.body.response),
                            HexDecode(k.result.body.signature))

\* What C5 says of a step: once built, the shared state does not change,
\* and once the server serves, no keypair is generated.
C5_Frame ==
  /\ appState # None => appState' = appState
  /\ mainKp # 0 => mainKp' = mainKp /\ keygens' = keygens

\* C5: the keypair is created once, before any request is served; no
\* handler changes the shared state; every attestation request, health
\* reply and signature is made with that keypair.
C5_KeypairCreatedOnceReadOnly == []C5_OneKeypair /\ [][C5_Frame]_vars

C5_Witness ==
  /\ calls[1].kind = "process_data" /\ calls[1].pc = "done"
  /\ calls[1].result.tag = "ok"
  /\ IsAttest(2) /\ calls[2].pc = "match"
  /\ mainKp = NumKeys

----------------------------------------------------------------------------
(* Claims about process_data (SpecProcess) *)

\* a - b on u64, for a >= b.
U64Sub(a, b) ==
  LET d1 == a[1] - b[1]
      d2 == a[2] - b[2] - (IF d1 < 0 THEN 1 ELSE 0)
      d3 == a[3] - b[3] - (IF d2 < 0 THEN 1 ELSE 0)
      d4 == a[4] - b[4] - (IF d3 < 0 THEN 1 ELSE 0)
  IN  << d1 % LimbBase, d2 % LimbBase, d3 % LimbBase, d4 % LimbBase >>

ProcessReturned == pdArgs # None /\ pdRet # None

\* The call got a JSON body and a clock reading.
ProcessTimed ==
  /\ ProcessReturned
  /\ pdArgs.upstream.fetched /\ pdArgs.upstream.parsed
  /\ pdArgs.clock.some

\* T, the upstream time in ms, as an exact product.
ExactTimestampMs == U64MulSmall(JsonLastUpdatedEpoch(pdArgs.upstream.json), 1000)

\* now - T is exactly d, T being below 2^64 and not after now.
AgeIs(d) ==
  /\ ~ExactTimestampMs.overflow
  /\ ~U64Lt(pdArgs.clock.v, ExactTimestampMs.val)
  /\ U64Sub(pdArgs.clock.v, ExactTimestampMs.val) = d

\* now - T exceeds the window.
AgeExceedsWindow ==
  /\ ~ExactTimestampMs.overflow
  /\ ~U64Lt(pdArgs.clock.v, ExactTimestampMs.val)
  /\ U64Lt(U64FromNat(StaleWindowMs),
           U64Sub(pdArgs.clock.v, ExactTimestampMs.val))

\* C6: process_data signs only when now - T is at most 3,600,000 ms: when
\* now - T exceeds the window the call returns the staleness error and no
\* signature, and when now - T is exactly 3,600,000 the data is signed.
C6_SignsOnlyFresh ==
  ProcessTimed =>
    /\ AgeExceedsWindow => pdRet = Err("Weather API timestamp is too old")
    /\ pdRet.tag = "ok" => ~AgeExceedsWindow
    /\ AgeIs(U64FromNat(StaleWindowMs)) => pdRet.tag = "ok"

C6_Witness ==
  /\ ProcessTimed
  /\ AgeIs(U64FromNat(StaleWindowMs + 1))
  /\ ExactTimestampMs.val = GoldenTimestampMs
  /\ pdRet.tag = "err"

\* T + 3,600,000 as process_data computes it from the wrapped T.
Deadline == U64Add(ExactTimestampMs.val, U64FromNat(StaleWindowMs))

\* C16: whenever process_data gets as far as the freshness comparison, and
\* so whenever it signs, neither last_updated_epoch * 1000 nor the addition
\* of 3,600,000 has wrapped around modulo 2^64, and the timestamp_ms of a
\* signed message is last_updated_epoch * 1000 exactly.
C16_NoWraparound ==
  (ProcessTimed /\ pdRet # Panicked) =>
    /\ ~ExactTimestampMs.overflow
    /\ ~Deadline.overflow
    /\ pdRet.tag = "ok" =>
         pdRet.body.response.timestamp_ms = ExactTimestampMs.val

\* The upstream JSON has no last_updated_epoch.
NoEpoch ==
  /\ pdArgs.upstream.fetched /\ pdArgs.upstream.parsed
  /\ ~pdArgs.upstream.json.last_updated_epoch.some

\* The call has read the clock and the read has failed.
ClockReadFailed == pdRun.now = Absent

\* The call has read the clock and got a time later than the window.
ClockPastWindow ==
  /\ pdRun.now # None /\ pdRun.now # Absent
  /\ U64Lt(U64FromNat(StaleWindowMs), pdRun.now.v)

\* C17: when the fetch fails, when the body is not JSON and when the call
\* reads the clock and the read fails, process_data returns an error and
\* signs nothing, so a signed response has had the fetch, the parsing and
\* the clock read succeed. When the JSON has no last_updated_epoch and
\* the clock reads more than 3,600,000 ms the call returns the staleness
\* error, and no response signed at such a time carries the three defaults
\* together (location "Unknown", temperature 0, timestamp_ms 0).
C17_SignsAfterEveryStep ==
  ProcessReturned =>
    /\ ~pdArgs.upstream.fetched =>
         pdRet = Err("Failed to get weather response")
    /\ (pdArgs.upstream.fetched /\ ~pdArgs.upstream.parsed) =>
         pdRet = Err("Failed to parse weather response")
    /\ ClockReadFailed => pdRet = Err("Failed to get current timestamp")
    /\ pdRet.tag = "ok" =>
         /\ pdArgs.upstream.fetched /\ pdArgs.upstream.parsed
         /\ pdRun.now # None /\ pdRun.now # Absent
    /\ (NoEpoch /\ ClockPastWindow) =>
         pdRet = Err("Weather API timestamp is too old")
    /\ (pdRet.tag = "ok" /\ ClockPastWindow) =>
         ~ /\ pdRet.body.response.data.location = Unknown
           /\ pdRet.body.response.data.temperature = U64Zero
           /\ pdRet.body.response.timestamp_ms = U64Zero

\* A JSON body without last_updated_epoch was parsed, the clock was read
\* and the read failed: the call has returned the error of the clock.
C17_Witness ==
  /\ ProcessReturned
  /\ NoEpoch
  /\ ClockReadFailed
  /\ pdRet = Err("Failed to get current timestamp")

----------------------------------------------------------------------------
(* Claims about health_check (SpecHealth) *)

HealthReturned == hcArgs # None /\ hcRet # None

\* The entries of the endpoints list of the file, none if it has no list.
ListedEntries ==
  IF hcArgs.file.read /\ hcArgs.file.yaml /\ hcArgs.file.endpoints.some
  THEN hcArgs.file.endpoints.v
  ELSE <<>>

\* The positions of the list that hold a string.
StringPositions == {i \in 1..Len(ListedEntries) : ListedEntries[i].some}

\* The request to entry i failed, or its body was read and could not be.
CheckFailed(i) ==
  \/ ~hcArgs.outcomes[i].sent
  \/ /\ Contains(ListedEntries[i].v, AmazonawsSuffix)
     /\ ~hcArgs.outcomes[i].body.some

\* C18: health_check returns an error only when the HTTP client cannot be
\* built, whatever the endpoints file holds and whatever the requests give.
\* Its reply carries the hex of the public key; the status map is empty
\* when the file is missing or is not YAML; otherwise it holds exactly one
\* entry for each string of the list and nothing else, the entry being that
\* of the last check of that string, false when that check failed.
C18_HealthNeverFailsOnEndpoints ==
  HealthReturned =>
    /\ hcRet.tag = "err" <=> ~hcArgs.client_ok
    /\ hcRet.tag = "ok" =>
         LET status == hcRet.body.endpoints_status
         IN  /\ HexDecode(hcRet.body.pk) = PublicKeyBytes(hcArgs.kp)
             /\ (~hcArgs.file.read \/ ~hcArgs.file.yaml) => status = {}
             /\ \A e \in status :
                  \E i \in StringPositions : ListedEntries[i].v = e[1]
             /\ \A i \in StringPositions :
                  /\ Cardinality({e \in status : e[1] = ListedEntries[i].v}) = 1
                  /\ (\A j \in StringPositions :
                        ListedEntries[j] = ListedEntries[i] => j <= i)
                     => /\ CheckFailed(i) =>
                             <<ListedEntries[i].v, FALSE>> \in status
                        /\ <<ListedEntries[i].v,
                             is_reachable(ListedEntries[i].v,
                                          hcArgs.outcomes[i])>> \in status

\* An endpoint listed twice was reachable at its first check and not at its
\* second, the other endpoint could not be reached, and the reply is Ok.
C18_Witness ==
  /\ HealthReturned /\ hcRet.tag = "ok"
  /\ Len(ListedEntries) = 4
  /\ hcArgs.outcomes[1].sent /\ hcArgs.outcomes[1].body = Some(BodyHealthy)
  /\ hcArgs.outcomes[2].sent /\ ~hcArgs.outcomes[2].body.some
  /\ ~hcArgs.outcomes[4].sent
  /\ hcRet.body.endpoints_status
       = {<<KmsEndpoint, FALSE>>, <<WeatherEndpoint, FALSE>>}

----------------------------------------------------------------------------
(* Claims about init (SpecBoot) *)

MountAttempted == mountTry # None /\ mountTry.attempted

\* C1: whenever mount is attempted on an entry, its target is a directory
\* at that moment, and create_dir_all was called for the entry exactly when
\* the target did not exist.
C1_TargetExistsAtMount ==
  MountAttempted =>
    /\ mountTry.dir
    /\ mountTry.created <=> ~mountTry.existed

\* C2 as stated: once the workload is spawned, boot has returned and its
\* entropy step has seeded the kernel successfully.
C2_SeededBeforeSpawn ==
  (spawns > 0 \/ childKey) =>
    /\ bootCalls = 1 /\ initPc \notin {"main"} \cup Range(BootSteps)
    /\ entropy = "seeded"

\* C2 as amended: once the workload is spawned, and so whenever its keypair
\* is generated, boot has returned and seed_entropy(4096) has run once: it
\* has seeded the kernel or it has failed and the failure was printed.
C2_SeedAttemptedBeforeSpawn ==
  (spawns > 0 \/ childKey) =>
    /\ bootCalls = 1 /\ initPc \notin {"main"} \cup Range(BootSteps)
    /\ seedAttempts = 1
    /\ entropy \in {"seeded", "failed"}

C2_Witness == childKey /\ child = "running" /\ entropy = "failed"

\* The targets of the mount table, in table order.
TableTargets == [i \in 1..Len(MountTable) |-> MountTable[i].target]

\* The streams of the console table, in table order.
TableStreams == [i \in 1..Len(ConsoleTable) |-> ConsoleTable[i].file]

InBoot == initPc \in {"main"} \cup Range(BootSteps)

\* C11: whichever steps fail (create_dir_all, any of the 8 mounts, any of the
\* 3 redirections, entropy seeding), boot goes on: while it runs, what it
\* has attempted is a prefix of both tables, each step at most once, and it
\* can always take its next step; once it has returned it has attempted the
\* 8 mounts in table order, the 3 redirections in order, init_platform once
\* and seed_entropy once, and main goes on to spawn the workload; no failed
\* step of boot (init.rs lines 35, 40, 55, 66) ends init.
C11_BootNeverFatal ==
  /\ Len(mountAttempts) <= Len(TableTargets)
  /\ mountAttempts = SubSeq(TableTargets, 1, Len(mountAttempts))
  /\ Len(consoleAttempts) <= Len(TableStreams)
  /\ consoleAttempts = SubSeq(TableStreams, 1, Len(consoleAttempts))
  /\ platformInits <= 1 /\ seedAttempts <= 1 /\ bootCalls <= 1
  /\ mountFailures <= Len(mountAttempts)
  /\ consoleFailures <= Len(consoleAttempts)
  /\ (InBoot \/ initPc \in {"booted", "spawn"}) => ENABLED BootNext
  /\ ~InBoot =>
       /\ mountAttempts = TableTargets
       /\ consoleAttempts = TableStreams
       /\ platformInits = 1 /\ seedAttempts = 1 /\ bootCalls = 1
  /\ initPc \in {"main", "booted", "spawn", "wait", "reboot", "halted",
                 "panicked"} \cup Range(BootSteps)
  /\ initPc = "panicked" => panicLine \notin {35, 40, 55, 66}
  /\ spawns = 1 <=>
       \/ initPc \in {"wait", "reboot", "halted"}
       \/ initPc = "panicked" /\ panicLine \in {85, 88}

\* C12: a mount whose target lies under another entry's target is attempted
\* only after the mount of that entry has been attempted: /sys before
\* /sys/fs/cgroup, /dev before /dev/pts and /dev/shm.
C12_ParentMountedFirst ==
  \A k \in 1..Len(mountAttempts) :
    \A q \in Targets :
      IsUnder(mountAttempts[k], q) =>
        \E j \in 1..(k - 1) : mountAttempts[j] = q

\* The three nested targets have all been attempted, the sysfs mount having
\* failed.
C12_Witness ==
  /\ {DevPts, DevShm, SysFsCgroup} \subseteq Range(mountAttempts)
  /\ mountTry.target = SysFsCgroup /\ mountTry.attempted
  /\ fs[Sys] # "dir"

\* C13: boot is entered at most once and its steps run in the order
\* init_rootfs (all mounts), init_console, init_platform, seed_entropy: a
\* step has started only if every earlier one is complete; the workload is
\* spawned only after boot has returned, and from then on boot is never
\* entered again.
C13_BootOnceInOrder ==
  /\ bootCalls <= 1
  /\ initPc = "main" <=> bootCalls = 0
  /\ consoleAttempts # <<>> => mountAttempts = TableTargets
  /\ platformInits > 0 => consoleAttempts = TableStreams
  /\ seedAttempts > 0 => platformInits = 1
  /\ initPc = "init_rootfs" =>
       consoleAttempts = <<>> /\ platformInits = 0 /\ seedAttempts = 0
  /\ initPc = "init_console" => platformInits = 0 /\ seedAttempts = 0
  /\ initPc = "init_platform" => platformInits = 0 /\ seedAttempts = 0
  /\ initPc = "seed_entropy" => platformInits = 1 /\ seedAttempts = 0
  /\ (spawns > 0 \/ child # "none") =>
       /\ ~InBoot /\ bootCalls = 1
       /\ mountAttempts = TableTargets /\ consoleAttempts = TableStreams
       /\ platformInits = 1 /\ seedAttempts = 1

\* The workload has been spawned and has exited, init is about to restart
\* the platform, and boot has run once.
C13_Witness ==
  /\ initPc = "reboot" /\ child = "reaped" /\ bootCalls = 1
  /\ seedAttempts = 1 /\ platformInits = 1

\* C15: once main is about to spawn the workload, init eventually calls
\* reboot, and calls it exactly once, whether the spawn fails, wait returns
\* an error, or the workload exits and is reaped: reboot has then run once
\* and init has halted.
C15_RebootReached ==
  (initPc = "spawn") ~> (reboots = 1 /\ initPc = "halted")

\* C10: the workload is spawned at most once; while it runs, init is in
\* wait and has not rebooted; reboot is reached at most once and never while
\* the workload runs.
C10_SuperviseOnce ==
  /\ spawns <= 1 /\ reboots <= 1
  /\ child = "running" => initPc = "wait" /\ reboots = 0
  /\ initPc \in {"reboot", "halted"} => child # "running"
  /\ child # "none" => spawns = 1

C10_Witness ==
  /\ reboots = 1 /\ spawns = 1 /\ child = "reaped" /\ childKey

====
